---- MODULE Spec2Model ----
(***************************************************************************)
(* Light Painter (semagnum/lightpaint): the shadow-card operator and the   *)
(* numeric helpers of operators/method_util.py and operators/ShadowCard.py *)
(* as state machines.                                                      *)
(*                                                                         *)
(* Numbers.  The add-on computes with the host's Vector and Matrix types.  *)
(* Here a vector is a triple of integers and all arithmetic is exact: a    *)
(* coordinate is a whole number of length units of 0.01 (the value of      *)
(* EPSILON), and inputs are drawn from grids on which every division the   *)
(* code performs (size / 2, length / 2, * factor) is exact.  Rounding of   *)
(* the host's floating-point numbers is not modelled.                      *)
(***************************************************************************)
EXTENDS Integers, Sequences, FiniteSets, TLC

VARIABLES
    scene,          \* bpy.data and the context: objects, selection, active object, materials
    props,          \* the operator's properties (self.factor, self.offset, ...)
    stroke_input,   \* the annotation strokes as get_strokes(context, 'X', 0.0) delivers them
    light_objs,     \* the tuple the last get_selected_lights(context) returned
    result,         \* what the last operator call returned
    report,         \* the messages passed to self.report
    layout,         \* the properties the last draw laid out
    normals,        \* get_average_normal: its argument
    avg_normal,     \* get_average_normal: its outcome
    box_in,         \* get_box: its arguments, and the angle box_fit_2d answers for them
    box_out         \* get_box: its outcome

vars == <<scene, props, stroke_input, light_objs, result, report, layout,
          normals, avg_normal, box_in, box_out>>

sceneVars == <<scene, props, stroke_input, light_objs, result, report, layout>>
normalVars == <<normals, avg_normal>>
boxVars == <<box_in, box_out>>

(***************************************************************************)
(* Vectors and matrices (mathutils.Vector, mathutils.Matrix).              *)
(***************************************************************************)
Zero3 == <<0, 0, 0>>

VAdd(a, b) == <<a[1] + b[1], a[2] + b[2], a[3] + b[3]>>

VSub(a, b) == <<a[1] - b[1], a[2] - b[2], a[3] - b[3]>>

VScale(a, k) == <<a[1] * k, a[2] * k, a[3] * k>>

VNeg(a) == <<0 - a[1], 0 - a[2], 0 - a[3]>>

Dot(a, b) == a[1] * b[1] + a[2] * b[2] + a[3] * b[3]

Cross(a, b) == <<a[2] * b[3] - a[3] * b[2],
                 a[3] * b[1] - a[1] * b[3],
                 a[1] * b[2] - a[2] * b[1]>>

Abs(n) == IF n < 0 THEN 0 - n ELSE n

RECURSIVE Gcd(_, _)
Gcd(a, b) == IF b = 0 THEN a ELSE Gcd(b, a % b)

\* Exact division of a vector by a whole number (v is a multiple of k).
VDiv(a, k) == <<(a[1] * k) \div (k * k), (a[2] * k) \div (k * k), (a[3] * k) \div (k * k)>>

\* Vector.normalize() / Vector.normalized(): the zero vector stays the zero
\* vector; any other vector v becomes the unit vector v / |v|.  A unit vector
\* is represented by the primitive integer vector on its ray (v divided by the
\* gcd of its components), which for an axis-parallel v is v / |v| itself.
Normalized(v) ==
    IF v = Zero3 THEN Zero3
    ELSE VDiv(v, Gcd(Gcd(Abs(v[1]), Abs(v[2])), Abs(v[3])))

\* A matrix is the triple of its rows.
MatVec(m, v) == <<Dot(m[1], v), Dot(m[2], v), Dot(m[3], v)>>

Col(m, j) == <<m[1][j], m[2][j], m[3][j]>>

Transpose(m) == <<Col(m, 1), Col(m, 2), Col(m, 3)>>

MatMul(a, b) ==
    <<<<Dot(a[1], Col(b, 1)), Dot(a[1], Col(b, 2)), Dot(a[1], Col(b, 3))>>,
      <<Dot(a[2], Col(b, 1)), Dot(a[2], Col(b, 2)), Dot(a[2], Col(b, 3))>>,
      <<Dot(a[3], Col(b, 1)), Dot(a[3], Col(b, 2)), Dot(a[3], Col(b, 3))>>>>

Identity3 == <<<<1, 0, 0>>, <<0, 1, 0>>, <<0, 0, 1>>>>

Det(m) == Dot(m[1], Cross(m[2], m[3]))

(***************************************************************************)
(* method_util.get_average_normal                                          *)
(***************************************************************************)
NORMAL_ERROR == "Average of normals results in a zero vector - unable to calculate average direction!"

\* sum(normals, start=Vector())
RECURSIVE SumVectors(_, _)
SumVectors(vs, start) ==
    IF vs = <<>> THEN start ELSE SumVectors(Tail(vs), VAdd(start, Head(vs)))

\* Faulty variant: the zero-vector test is made on the input's emptiness only.
GetAverageNormalEmptyOnly(ns) ==
    LET avg == Normalized(SumVectors(ns, Zero3))
    IN  IF ns = <<>>
        THEN [raised |-> TRUE, error |-> NORMAL_ERROR, value |-> Zero3]
        ELSE [raised |-> FALSE, error |-> "", value |-> avg]

GetAverageNormal(ns) ==
    LET avg == Normalized(SumVectors(ns, Zero3))
    IN  IF avg = Zero3
        THEN [raised |-> TRUE, error |-> NORMAL_ERROR, value |-> Zero3]
        ELSE [raised |-> FALSE, error |-> "", value |-> avg]

\* The normals the strokes may carry.
InputNormals ==
    {<<1, 0, 0>>, <<-1, 0, 0>>, <<0, 1, 0>>, <<0, -1, 0>>, <<0, 0, 1>>, <<0, 0, -1>>,
     <<1, 1, 0>>, <<-1, -1, 0>>, <<1, 2, 2>>, <<0, 0, 0>>}

MaxNormals == 3

SeqsUpTo(S, n) == UNION {[1..k -> S] : k \in 0..n}

Idle == [called |-> FALSE]

InitNormal ==
    /\ normals \in SeqsUpTo(InputNormals, MaxNormals)
    /\ avg_normal = Idle
    /\ scene = Idle /\ props = Idle /\ stroke_input = Idle /\ light_objs = <<>>
    /\ result = "NONE" /\ report = <<>> /\ layout = <<>>
    /\ box_in = Idle /\ box_out = Idle

CallGetAverageNormal ==
    /\ avg_normal = Idle
    /\ avg_normal' = [called |-> TRUE, out |-> GetAverageNormal(normals)]
    /\ UNCHANGED <<normals, sceneVars, boxVars>>

NextNormal == CallGetAverageNormal

SpecNormal == InitNormal /\ [][NextNormal]_vars

\* The component-wise sum of the input, one component at a time.
RECURSIVE ComponentSum(_, _, _)
ComponentSum(vs, c, k) == IF k = 0 THEN 0 ELSE vs[k][c] + ComponentSum(vs, c, k - 1)

InputSum == <<ComponentSum(normals, 1, Len(normals)),
              ComponentSum(normals, 2, Len(normals)),
              ComponentSum(normals, 3, Len(normals))>>

IsUnitDirection(v) == v # Zero3 /\ Gcd(Gcd(Abs(v[1]), Abs(v[2])), Abs(v[3])) = 1

\* C1: get_average_normal raises ValueError(NORMAL_ERROR) exactly when the
\* component-wise sum of the normals is the zero vector (the empty input and
\* inputs that cancel out included); otherwise it raises nothing and returns
\* the direction of the sum: a unit vector parallel to the sum, pointing the
\* same way.
C1_AverageNormal ==
    avg_normal.called =>
        LET out == avg_normal.out
        IN  /\ (InputSum = Zero3) => (out.raised /\ out.error = NORMAL_ERROR)
            /\ (InputSum # Zero3) =>
                  /\ ~out.raised
                  /\ IsUnitDirection(out.value)
                  /\ Cross(out.value, InputSum) = Zero3
                  /\ Dot(out.value, InputSum) > 0

\* C1's case: normals that cancel out (n and -n) have been rejected.
C1_Witness ==
    /\ avg_normal.called
    /\ Len(normals) = 2
    /\ normals[1] # Zero3
    /\ normals[2] = VNeg(normals[1])
    /\ avg_normal.out.raised

(***************************************************************************)
(* method_util.get_box                                                     *)
(***************************************************************************)
UnitZ == <<0, 0, 1>>

\* Matrix of the rotation about the unit axis k by a quarter turn
\* (Rodrigues: v -> k x v + k (k . v)), column by column.
QuarterTurnAbout(k) ==
    LET img(v) == VAdd(Cross(k, v), VScale(k, Dot(k, v)))
    IN  Transpose(<<img(<<1, 0, 0>>), img(<<0, 1, 0>>), img(<<0, 0, 1>>)>>)

\* normal.rotation_difference(Vector((0, 0, 1))).to_matrix() for a normal
\* along an axis: the shortest rotation that takes the normal to +Z.  It turns
\* about normal x Z; for the normal -Z the host turns by a half turn about
\* the diagonal of the XY plane.
RotationDifferenceToZ(normal) ==
    IF normal = UnitZ THEN Identity3
    ELSE IF normal = VNeg(UnitZ)
         THEN <<<<0, 1, 0>>, <<1, 0, 0>>, <<0, 0, -1>>>>
         ELSE QuarterTurnAbout(Cross(normal, UnitZ))

\* Matrix.Rotation(angle, 3, 'Z') for an angle of q quarter turns.
Cos4(q) == CASE q % 4 = 0 -> 1 [] q % 4 = 1 -> 0 [] q % 4 = 2 -> -1 [] OTHER -> 0

Sin4(q) == CASE q % 4 = 0 -> 0 [] q % 4 = 1 -> 1 [] q % 4 = 2 -> 0 [] OTHER -> -1

RotationZ(q) ==
    <<<<Cos4(q), 0 - Sin4(q), 0>>, <<Sin4(q), Cos4(q), 0>>, <<0, 0, 1>>>>

\* Matrix.inverted_safe() of an invertible matrix: the adjugate over the
\* determinant (the determinant of a rotation is 1).
InvertedSafe(m) ==
    LET d == Det(m)
        adj == Transpose(<<Cross(m[2], m[3]), Cross(m[3], m[1]), Cross(m[1], m[2])>>)
    IN  <<VDiv(adj[1], d), VDiv(adj[2], d), VDiv(adj[3], d)>>

\* box_fit_2d(points): the host's answer for the points of this call, a whole
\* number of quarter turns.
BoxFit2D(points) == box_in.angle

Min(S) == CHOOSE x \in S : \A y \in S : x <= y

Max(S) == CHOOSE x \in S : \A y \in S : x >= y

\* Faulty variant: the centre is measured from the far corner of the rectangle.
GetBoxFarCorner(vertices, normal) ==
    LET align_to_z == RotationDifferenceToZ(normal)
        flattened_2d == [i \in DOMAIN vertices |-> MatVec(align_to_z, vertices[i])]
        angle == BoxFit2D([i \in DOMAIN vertices |-> <<flattened_2d[i][1], flattened_2d[i][2]>>])
        box_mat == RotationZ(angle)
        aligned_2d == [i \in DOMAIN vertices |->
                          MatVec(box_mat, <<flattened_2d[i][1], flattened_2d[i][2], 0>>)]
        xs == {aligned_2d[i][1] : i \in DOMAIN vertices}
        ys == {aligned_2d[i][2] : i \in DOMAIN vertices}
        length == Max(xs) - Min(xs)
        width == Max(ys) - Min(ys)
        inv == MatMul(InvertedSafe(align_to_z), InvertedSafe(box_mat))
    IN  [center |-> MatVec(inv, <<Max(xs) + (length \div 2), Max(ys) + (width \div 2),
                                  flattened_2d[1][3]>>),
         matrix |-> inv, length |-> length, width |-> width]

GetBox(vertices, normal) ==
    LET align_to_z == RotationDifferenceToZ(normal)
        flattened_2d == [i \in DOMAIN vertices |-> MatVec(align_to_z, vertices[i])]
        angle == BoxFit2D([i \in DOMAIN vertices |-> <<flattened_2d[i][1], flattened_2d[i][2]>>])
        box_mat == RotationZ(angle)
        aligned_2d == [i \in DOMAIN vertices |->
                          MatVec(box_mat, <<flattened_2d[i][1], flattened_2d[i][2], 0>>)]
        xs == {aligned_2d[i][1] : i \in DOMAIN vertices}
        ys == {aligned_2d[i][2] : i \in DOMAIN vertices}
        x_min == Min(xs)
        x_max == Max(xs)
        y_min == Min(ys)
        y_max == Max(ys)
        length == x_max - x_min
        width == y_max - y_min
        inv == MatMul(InvertedSafe(align_to_z), InvertedSafe(box_mat))
    IN  [center |-> MatVec(inv, <<x_min + (length \div 2), y_min + (width \div 2),
                                  flattened_2d[1][3]>>),
         matrix |-> inv, length |-> length, width |-> width]

\* The normals of the planes the vertices are flattened along.
AxisNormals ==
    {<<1, 0, 0>>, <<-1, 0, 0>>, <<0, 1, 0>>, <<0, -1, 0>>, <<0, 0, 1>>, <<0, 0, -1>>}

\* Two vectors spanning the plane with the given axis normal.
PlaneBasis(normal) ==
    IF normal[1] # 0 THEN <<<<0, 1, 0>>, <<0, 0, 1>>>>
    ELSE IF normal[2] # 0 THEN <<<<1, 0, 0>>, <<0, 0, 1>>>>
         ELSE <<<<1, 0, 0>>, <<0, 1, 0>>>>

\* In-plane coordinates run over the even numbers from -2 to 2 * MaxBoxCoord,
\* so that length / 2 and width / 2 are whole.
MaxBoxCoord == 1

MaxBoxVerts == 2

BoxCoords == {2 * c : c \in -1..MaxBoxCoord}

\* The heights of the plane above the origin.
PlaneHeights == {0, 3}

\* The points of the plane with the given normal at the given height.
PlanePoints(normal, h) ==
    {VAdd(VScale(normal, h),
          VAdd(VScale(PlaneBasis(normal)[1], a), VScale(PlaneBasis(normal)[2], b))) :
        a \in BoxCoords, b \in BoxCoords}

QuarterTurns == 0..3

InitBox ==
    /\ \E normal \in AxisNormals, h \in PlaneHeights, q \in QuarterTurns :
         \E n \in 1..MaxBoxVerts :
           \E vs \in [1..n -> PlanePoints(normal, h)] :
              box_in = [vertices |-> vs, normal |-> normal, angle |-> q]
    /\ box_out = Idle
    /\ scene = Idle /\ props = Idle /\ stroke_input = Idle /\ light_objs = <<>>
    /\ result = "NONE" /\ report = <<>> /\ layout = <<>>
    /\ normals = <<>> /\ avg_normal = Idle

CallGetBox ==
    /\ box_out = Idle
    /\ box_out' = [called |-> TRUE, out |-> GetBox(box_in.vertices, box_in.normal)]
    /\ UNCHANGED <<box_in, sceneVars, normalVars>>

NextBox == CallGetBox

SpecBox == InitBox /\ [][NextBox]_vars

\* A world-space point in the rectangle's frame: the returned matrix maps the
\* frame to the world and is a rotation, so its transpose maps back.
InBoxFrame(p) == MatVec(Transpose(box_out.out.matrix), p)

\* C6: get_box returns the rectangle fitted by min/max projection of the
\* aligned vertices: length and width are >= 0, every vertex taken into the
\* frame of the returned matrix lies within length / 2 and width / 2 of the
\* returned centre, the rectangle is tight (some vertex lies on each of its
\* four sides), and the centre lies in the plane of the first vertex.
C6_BoxFit ==
    box_out.called =>
        LET out == box_out.out
            c == InBoxFrame(out.center)
            ps == {InBoxFrame(box_in.vertices[i]) : i \in DOMAIN box_in.vertices}
        IN  /\ out.length >= 0 /\ out.width >= 0
            /\ MatMul(out.matrix, Transpose(out.matrix)) = Identity3
            /\ \A p \in ps : /\ 2 * Abs(p[1] - c[1]) <= out.length
                             /\ 2 * Abs(p[2] - c[2]) <= out.width
            /\ \E p \in ps : 2 * (c[1] - p[1]) = out.length
            /\ \E p \in ps : 2 * (p[1] - c[1]) = out.length
            /\ \E p \in ps : 2 * (c[2] - p[2]) = out.width
            /\ \E p \in ps : 2 * (p[2] - c[2]) = out.width
            /\ c[3] = InBoxFrame(box_in.vertices[1])[3]

\* C6's case: a box of positive length and width has been fitted to vertices
\* of a plane that is neither horizontal nor through the origin, after a turn.
C6_Witness ==
    /\ box_out.called
    /\ box_out.out.length > 0 /\ box_out.out.width > 0
    /\ box_out.out.length # box_out.out.width
    /\ box_in.normal = <<-1, 0, 0>>
    /\ box_in.angle = 1
    /\ box_in.vertices[1][1] # 0

(***************************************************************************)
(* The host's scene, as the shadow-card operator reads and writes it.      *)
(*                                                                         *)
(* An object is a record: name (unique among the host's objects), type     *)
(* (obj.type), data (the datablock: data.type is the light type, and       *)
(* "NONE" for a datablock such as a mesh that has no attribute `type`),    *)
(* location, matrix_world (its 3x3 part rot and its translation loc; the   *)
(* objects have no parent, so loc is the location) and visible_camera.     *)
(* Objects are referred to by their index in scene.objects; None is 0.     *)
(***************************************************************************)
None == 0

MAT_NAME == "LightPaint_Shadow"

MESH_NAME == "LightPaint_ShadowCard"

\* The resolution of self.factor: the factors are the multiples of
\* 1 / FactorDen in (0, 1].  Positions are multiples of FactorDen length
\* units, so that scaling a difference of positions by a factor is exact.
FactorDen == 3

G(c) == c * FactorDen

LightData(type, shape, size, size_y) ==
    [type |-> type, shape |-> shape, size |-> size, size_y |-> size_y,
     vertices |-> <<>>, hull |-> FALSE, materials |-> <<>>]

MeshData(vertices) ==
    [type |-> "NONE", shape |-> "NONE", size |-> 0, size_y |-> 0,
     vertices |-> vertices, hull |-> FALSE, materials |-> <<>>]

Object(name, type, data, location, rot) ==
    [name |-> name, type |-> type, data |-> data, location |-> location,
     matrix_world |-> [rot |-> rot, loc |-> location], visible_camera |-> TRUE]

\* The objects a scene starts with, by kind: a sun shining down, a point
\* light, a rectangular area light, and a mesh (the surface painted on).
SceneObject(name, kind) ==
    CASE kind = "SUN" ->
           Object(name, "LIGHT", LightData("SUN", "NONE", 0, 0), <<0, 0, G(2)>>, Identity3)
      [] kind = "POINT" ->
           Object(name, "LIGHT", LightData("POINT", "NONE", 0, 0), <<G(1), 0, G(2)>>, Identity3)
      [] kind = "AREA" ->
           Object(name, "LIGHT", LightData("AREA", "RECTANGLE", 2 * G(1), 2 * G(2)),
                  <<0, G(1), G(2)>>, Identity3)
      [] OTHER ->
           Object(name, "MESH", MeshData(<<>>), Zero3, Identity3)

\* The host keeps names unique: a new datablock's name is the name asked for
\* and a serial number (".001", ".002", ...).
UniqueName(base, n) == <<base, n>>

ObjectKinds == {"SUN", "POINT", "AREA", "MESH"}

(***************************************************************************)
(* ShadowCard.get_selected_lights                                          *)
(***************************************************************************)
\* A Python dict, in insertion order: a sequence of <<key, value>> pairs.
\* d[k] = v replaces the value of a key that is present, in place, and
\* appends the pair otherwise.
DictSet(d, k, v) ==
    IF \E i \in DOMAIN d : d[i][1] = k
    THEN [i \in DOMAIN d |-> IF d[i][1] = k THEN <<k, v>> ELSE d[i]]
    ELSE Append(d, <<k, v>>)

\* tuple(d.values())
DictValues(d) == [i \in DOMAIN d |-> d[i][2]]

\* {obj.name: obj for obj in objs if obj.type == 'LIGHT'}
RECURSIVE LightDict(_, _, _)
LightDict(s, objs, d) ==
    IF objs = <<>> THEN d
    ELSE LET obj == Head(objs)
         IN  LightDict(s, Tail(objs),
                       IF s.objects[obj].type = "LIGHT"
                       THEN DictSet(d, s.objects[obj].name, obj)
                       ELSE d)

\* Faulty variant: the active object is appended to the selected lights (and so
\* counted twice when it is selected too).
GetSelectedLightsAppend(s) ==
    LET lights == DictValues(LightDict(s, s.selected_objects, <<>>))
    IN  IF s.active_object # None THEN Append(lights, s.active_object) ELSE lights

GetSelectedLights(s) ==
    LET light_objs_dict == LightDict(s, s.selected_objects, <<>>)
    IN  DictValues(IF s.active_object # None
                   THEN DictSet(light_objs_dict, s.objects[s.active_object].name,
                                s.active_object)
                   ELSE light_objs_dict)

\* method_util.has_strokes: the active annotation layer has strokes on its
\* active frame.
HasStrokes == stroke_input.has_strokes

\* LP_OT_ConvexShadow.poll.  `and` evaluates get_selected_lights only when
\* there are strokes.
Poll(s) == HasStrokes /\ Len(GetSelectedLights(s)) > 0

\* any(obj.data.type == 'SUN' for obj in objs), and with negate the same for
\* != 'SUN': "TRUE", "FALSE", or "RAISED" when it reads data.type of a
\* datablock without one before an object answers yes.
RECURSIVE AnySun(_, _, _)
AnySun(s, objs, negate) ==
    IF objs = <<>> THEN "FALSE"
    ELSE LET t == s.objects[Head(objs)].data.type
         IN  IF t = "NONE" THEN "RAISED"
             ELSE IF (t = "SUN") # negate THEN "TRUE"
                  ELSE AnySun(s, Tail(objs), negate)

\* LP_OT_ConvexShadow.draw: the properties laid out, in order.
Draw(s) ==
    LET objs == GetSelectedLights(s)
        has_sun == AnySun(s, objs, FALSE)
        has_other_lamps == AnySun(s, objs, TRUE)
    IN  IF has_sun = "RAISED" \/ has_other_lamps = "RAISED"
        THEN [raised |-> TRUE, layout |-> <<>>]
        ELSE [raised |-> FALSE,
              layout |-> (IF has_sun = "TRUE" THEN <<"offset">> ELSE <<>>)
                         \o (IF has_other_lamps = "TRUE" THEN <<"factor">> ELSE <<>>)
                         \o <<"visible_to_camera", "shadow_color", "opacity">>]

\* The number of objects a scene starts with.
NumObjs == 3

\* Sequences over S without repetition.
Injective(S) == {q \in SeqsUpTo(S, Cardinality(S)) : \A i, j \in DOMAIN q : i # j => q[i] # q[j]}

\* The scenes: every kind for every object, every selection in every order,
\* every active object (selected or not) or none.
Scenes ==
    {[objects |-> [o \in 1..NumObjs |-> SceneObject(UniqueName("Object", o), kinds[o])],
      selected_objects |-> sel,
      active_object |-> act,
      materials |-> <<>>,
      meshes |-> 0,
      occluders |-> {}] :
        kinds \in [1..NumObjs -> ObjectKinds],
        sel \in Injective(1..NumObjs),
        act \in 0..NumObjs}

\* The operator's properties: factor in units of 1 / FactorDen, offset in
\* length units, the colour and the opacity in tenths.
Props(factor, offset) ==
    [factor |-> factor, offset |-> offset, visible_to_camera |-> TRUE,
     shadow_color |-> <<5, 5, 5, 10>>, opacity |-> 10]

DefaultProps == Props(1, G(1))

NoStrokes == [has_strokes |-> FALSE, raises |-> FALSE, message |-> "", strokes |-> <<>>]

SomeStrokes == [has_strokes |-> TRUE, raises |-> FALSE, message |-> "",
                strokes |-> <<<<Zero3, <<G(1), 0, 0>>>>, <<<<0, G(1), 0>>>>>>]

InitLights ==
    /\ scene \in Scenes
    /\ props = DefaultProps
    /\ stroke_input \in {NoStrokes, SomeStrokes}
    /\ light_objs = <<>>
    /\ result = "NONE"
    /\ report = <<>>
    /\ layout = <<>>
    /\ normals = <<>> /\ avg_normal = Idle /\ box_in = Idle /\ box_out = Idle

\* The host asks whether the operator can run.
CallPoll ==
    /\ result = "NONE"
    /\ result' = IF Poll(scene) THEN "POLL_TRUE" ELSE "POLL_FALSE"
    /\ light_objs' = IF HasStrokes THEN GetSelectedLights(scene) ELSE light_objs
    /\ UNCHANGED <<scene, props, stroke_input, report, layout, normalVars, boxVars>>

\* The host draws the operator's panel.
CallDraw ==
    /\ result = "NONE"
    /\ light_objs' = GetSelectedLights(scene)
    /\ result' = IF Draw(scene).raised THEN "DRAW_RAISED" ELSE "DRAWN"
    /\ layout' = Draw(scene).layout
    /\ UNCHANGED <<scene, props, stroke_input, report, normalVars, boxVars>>

NextLights == CallPoll \/ CallDraw

SpecLights == InitLights /\ [][NextLights]_vars

\* get_selected_lights has run on the scene as it is.
LightsTaken == result \in {"DRAWN", "DRAW_RAISED"} \/ (result = "POLL_TRUE") \/ (result = "POLL_FALSE" /\ HasStrokes)

SelectedLights == {scene.selected_objects[i] : i \in DOMAIN scene.selected_objects}
                    \cap {o \in DOMAIN scene.objects : scene.objects[o].type = "LIGHT"}

ActiveIfAny == IF scene.active_object = None THEN {} ELSE {scene.active_object}

\* C2: every element of the tuple get_selected_lights returns is an object
\* of type 'LIGHT', whatever is selected and whatever is active.
C2_OnlyLights ==
    LightsTaken => \A i \in DOMAIN light_objs : scene.objects[light_objs[i]].type = "LIGHT"

\* C3: the tuple get_selected_lights returns holds every selected light and
\* the active object when there is one, holds no object twice, and is as long
\* as there are distinct objects among the selected lights and the active one.
C3_NoDuplicates ==
    LightsTaken =>
        /\ \A o \in SelectedLights \cup ActiveIfAny : \E i \in DOMAIN light_objs : light_objs[i] = o
        /\ \A i, j \in DOMAIN light_objs : i # j => light_objs[i] # light_objs[j]
        /\ Len(light_objs) = Cardinality(SelectedLights \cup ActiveIfAny)

\* C3's case: the active object is a light that is selected too, among other
\* selected lights, and the tuple has been taken.
C3_Witness ==
    /\ LightsTaken
    /\ scene.active_object \in SelectedLights
    /\ Cardinality(SelectedLights) >= 2
    /\ Len(light_objs) = Cardinality(SelectedLights)

(***************************************************************************)
(* ShadowCard.get_light_points, method_util.is_blocked                     *)
(***************************************************************************)
\* x ** 0.5 of a perfect square.
Sqrt(x) == CHOOSE r \in 0..x : r * r = x

\* matrix_world @ v
ToWorld(mw, v) == VAdd(MatVec(mw.rot, v), mw.loc)

GetLightPoints(light_obj) ==
    IF light_obj.data.type = "AREA"
    THEN LET rect == light_obj.data.shape \in {"RECTANGLE", "ELLIPSE"}
             size_x == IF rect THEN light_obj.data.size \div 2 ELSE Sqrt(light_obj.data.size)
             size_y == IF rect THEN light_obj.data.size_y \div 2 ELSE Sqrt(light_obj.data.size)
             corners == << <<size_x, size_y, 0>>, <<size_x, size_y * (-1), 0>>,
                           <<size_x * (-1), size_y, 0>>, <<size_x * (-1), size_y * (-1), 0>> >>
         IN  [i \in 1..4 |-> ToWorld(light_obj.matrix_world, corners[i])]
    ELSE <<light_obj.location>>

\* EPSILON = 0.01, the length unit.
EPSILON == 1

\* What a ray can hit: the scene's surfaces and the vertices of its meshes.
Surfaces(s) ==
    s.occluders \cup
    UNION {{s.objects[o].data.vertices[i] : i \in DOMAIN s.objects[o].data.vertices} :
              o \in {x \in DOMAIN s.objects : s.objects[x].type = "MESH"}}

\* scene.ray_cast(depsgraph, origin, direction, distance=max_distance): is_hit.
\* The ray hits a point that lies on it, at any distance from 0 on.
RayCast(s, origin, direction) ==
    \E p \in Surfaces(s) :
        /\ Cross(VSub(p, origin), direction) = Zero3
        /\ Dot(VSub(p, origin), direction) >= 0

\* Faulty variant: the ray starts at the point itself.
IsBlockedAtOrigin(s, origin, direction) == RayCast(s, origin, direction)

IsBlocked(s, origin, direction) ==
    LET offset_origin == VAdd(origin, VScale(direction, EPSILON))
    IN  RayCast(s, offset_origin, direction)

(***************************************************************************)
(* ShadowCard.assign_flag_material, LP_OT_ConvexShadow.add_card_for_lamp   *)
(***************************************************************************)
\* v * factor, for the factor k / FactorDen.
TimesFactor(v, k) == <<(v[1] * k) \div FactorDen, (v[2] * k) \div FactorDen, (v[3] * k) \div FactorDen>>

\* Faulty variant: the factor is measured from the surface (0 at the surface, 1 at
\* the light).
MeshVerticesFromSurface(s, self, light_obj, vertices) ==
    IF light_obj.data.type = "SUN"
    THEN LET direction == VNeg(Normalized(MatVec(light_obj.matrix_world.rot, <<0, 0, -1>>)))
             card(v) == VAdd(v, VScale(direction, self.offset))
             visible(v) == ~IsBlocked(s, v, direction)
             kept == SelectSeq(vertices, visible)
         IN  [i \in DOMAIN kept |-> card(kept[i])]
    ELSE LET factor == self.factor
             between(v, light_v) == VAdd(v, TimesFactor(VSub(light_v, v), factor))
             points == GetLightPoints(light_obj)
         IN  IF factor = FactorDen
             THEN vertices
             ELSE [n \in 1..(Len(vertices) * Len(points)) |->
                      between(vertices[((n - 1) \div Len(points)) + 1],
                              points[((n - 1) % Len(points)) + 1])]

\* add_card_for_lamp, lines 168-183: mesh_vertices.  For a sun, the stroke
\* vertices that are not blocked, moved towards the sun; otherwise, for each
\* stroke vertex in turn, a point for each light point in turn.
MeshVertices(s, self, light_obj, vertices) ==
    IF light_obj.data.type = "SUN"
    THEN LET direction == VNeg(Normalized(MatVec(light_obj.matrix_world.rot, <<0, 0, -1>>)))
             card(v) == VAdd(v, VScale(direction, self.offset))
             visible(v) == ~IsBlocked(s, v, direction)
             kept == SelectSeq(vertices, visible)
         IN  [i \in DOMAIN kept |-> card(kept[i])]
    ELSE LET factor == self.factor
             between(v, light_v) == VAdd(light_v, TimesFactor(VSub(v, light_v), factor))
             points == GetLightPoints(light_obj)
         IN  IF factor = FactorDen
             THEN vertices
             ELSE [n \in 1..(Len(vertices) * Len(points)) |->
                      between(vertices[((n - 1) \div Len(points)) + 1],
                              points[((n - 1) % Len(points)) + 1])]

\* bpy.data.materials.new(name=MAT_NAME) and the settings assign_flag_material
\* gives it.
FlagMaterial(s, color, opacity) ==
    [name |-> UniqueName(MAT_NAME, Len(s.materials)), use_nodes |-> TRUE,
     color |-> color, opacity |-> opacity,
     blend_method |-> "BLEND", shadow_method |-> "HASHED"]

\* assign_flag_material(obj, color, opacity): the scene afterwards.  A
\* material is referred to by its index in scene.materials.
AssignFlagMaterial(s, obj, color, opacity) ==
    [s EXCEPT !.materials = Append(@, FlagMaterial(s, color, opacity)),
              !.objects[obj].data.materials = Append(@, Len(s.materials) + 1)]

\* add_card_for_lamp, lines 160-166: everything is deselected, a mesh and an
\* object of its name are created, linked and made active.
NewCard(s) ==
    [s EXCEPT !.selected_objects = <<>>,
              !.meshes = @ + 1,
              !.objects = Append(@, Object(UniqueName(MESH_NAME, s.meshes), "MESH",
                                           MeshData(<<>>), Zero3, Identity3)),
              !.active_object = Len(s.objects) + 1]

\* add_card_for_lamp(context, light_obj, vertices): the scene afterwards, and
\* whether it raised.  Reading light_obj.data.type raises AttributeError for
\* a datablock without that attribute, after the card object was created.
\* The host's edit-mode toggles and convex hull operator are taken to succeed.
AddCardForLamp(s, self, light, vertices) ==
    LET s1 == NewCard(s)
        obj == s1.active_object
        light_obj == s1.objects[light]
    IN  IF light_obj.data.type = "NONE"
        THEN [scene |-> s1, raised |-> TRUE]
        ELSE LET mesh_vertices == MeshVertices(s1, self, light_obj, vertices)
                 s2 == [s1 EXCEPT !.objects[obj].data.vertices = mesh_vertices,
                                  !.objects[obj].data.hull = TRUE,
                                  !.objects[obj].visible_camera = self.visible_to_camera]
             IN  [scene |-> AssignFlagMaterial(s2, obj, self.shadow_color, self.opacity),
                  raised |-> FALSE]

\* vertices = tuple(v for stroke in strokes for v in stroke)
RECURSIVE Flatten(_)
Flatten(strokes) == IF strokes = <<>> THEN <<>> ELSE Head(strokes) \o Flatten(Tail(strokes))

(***************************************************************************)
(* add_card_for_lamp on its own: one light, strokes, surfaces around them. *)
(***************************************************************************)
HalfTurnAboutX == <<<<1, 0, 0>>, <<0, -1, 0>>, <<0, 0, -1>>>>

\* The lights a card is made for: suns shining down, down at scale 2, along
\* +Y and up; point lights; area lights measured by their sides and by their
\* area, level and tilted.
CardLights ==
    {Object(UniqueName("Object", 1), "LIGHT", LightData("SUN", "NONE", 0, 0), <<0, 0, G(2)>>, rot) :
        rot \in {Identity3, <<<<2, 0, 0>>, <<0, 2, 0>>, <<0, 0, 2>>>>,
                 QuarterTurnAbout(<<1, 0, 0>>), HalfTurnAboutX}}
    \cup
    {Object(UniqueName("Object", 1), "LIGHT", LightData("POINT", "NONE", 0, 0), loc, Identity3) :
        loc \in {<<G(1), 0, G(2)>>, <<0, 0, G(1)>>}}
    \cup
    {Object(UniqueName("Object", 1), "LIGHT", data, <<0, G(1), G(2)>>, rot) :
        data \in {LightData("AREA", "RECTANGLE", 2 * G(1), 2 * G(2)),
                  LightData("AREA", "SQUARE", G(1) * G(1), G(1) * G(1))},
        rot \in {Identity3, QuarterTurnAbout(<<1, 0, 0>>)}}

\* Where the strokes' vertices lie, and the surface points around them.
StrokePoints == {Zero3, <<G(1), 0, 0>>, <<0, G(1), 0>>}

OccluderPoints == {Zero3, <<0, 0, G(1)>>, <<G(1), 0, G(1)>>}

MaxVerts == 2

MaxCards == 2

InitCard ==
    /\ \E light \in CardLights, occ \in SUBSET OccluderPoints :
          scene = [objects |-> <<light>>, selected_objects |-> <<1>>, active_object |-> 1,
                   materials |-> <<>>, meshes |-> 0, occluders |-> occ]
    /\ \E k \in 1..FactorDen, offset \in {0, G(1)} : props = Props(k, offset)
    /\ \E n \in 1..MaxVerts : \E vs \in [1..n -> StrokePoints] :
          stroke_input = [has_strokes |-> TRUE, raises |-> FALSE, message |-> "",
                          strokes |-> <<vs>>]
    /\ light_objs = <<1>>
    /\ result = "NONE"
    /\ report = <<>>
    /\ layout = <<>>
    /\ normals = <<>> /\ avg_normal = Idle /\ box_in = Idle /\ box_out = Idle

\* self.add_card_for_lamp(context, light_obj, vertices) for the scene's light.
CallAddCardForLamp ==
    /\ scene.meshes < MaxCards
    /\ scene' = AddCardForLamp(scene, props, 1, Flatten(stroke_input.strokes)).scene
    /\ result' = "CARD_ADDED"
    /\ UNCHANGED <<props, stroke_input, light_objs, report, layout, normalVars, boxVars>>

NextCard == CallAddCardForLamp

SpecCard == InitCard /\ [][NextCard]_vars

\* The cards of the scene, the light they were made for, the strokes' vertices.
Cards == {o \in DOMAIN scene.objects : scene.objects[o].type = "MESH" /\ scene.objects[o].data.hull}

TheLight == scene.objects[1]

StrokeVertices == Flatten(stroke_input.strokes)

CardVertices(c) == scene.objects[c].data.vertices

\* p lies between l and v, at factor self.factor of the way from l to v.
AtFactor(p, l, v) == VScale(VSub(p, l), FactorDen) = VScale(VSub(v, l), props.factor)

\* C4: for a light that is not a sun, the set of the card's vertices is the
\* set of the points at `factor` of the way from a point of
\* get_light_points(light) (factor 0) to a stroke vertex (factor 1), for every
\* light point and every stroke vertex; at factor 1, where the stroke
\* vertices are passed through unchanged, too.
C4_BetweenLightAndSurface ==
    (result = "CARD_ADDED" /\ TheLight.data.type # "SUN") =>
        \A c \in Cards :
            LET ls == GetLightPoints(TheLight)
            IN  /\ \A i \in DOMAIN CardVertices(c) :
                      \E j \in DOMAIN StrokeVertices, n \in DOMAIN ls :
                          AtFactor(CardVertices(c)[i], ls[n], StrokeVertices[j])
                /\ \A j \in DOMAIN StrokeVertices, n \in DOMAIN ls :
                      \E i \in DOMAIN CardVertices(c) :
                          AtFactor(CardVertices(c)[i], ls[n], StrokeVertices[j])

\* C4's case: a card made for an area light (four light points) at factor 1,
\* from two different stroke vertices, passed through unchanged.
C4_Witness ==
    /\ result = "CARD_ADDED"
    /\ TheLight.data.type = "AREA"
    /\ props.factor = FactorDen
    /\ Len(StrokeVertices) = 2
    /\ StrokeVertices[1] # StrokeVertices[2]
    /\ \E c \in Cards : CardVertices(c) = StrokeVertices

\* The direction from the surface towards the sun: the unit vector opposite
\* to the light's direction matrix_world @ (0, 0, -1).
TowardsSun ==
    CHOOSE d \in AxisNormals :
        LET light_direction == MatVec(TheLight.matrix_world.rot, <<0, 0, -1>>)
        IN  Cross(d, light_direction) = Zero3 /\ Dot(d, light_direction) < 0

\* What a ray could hit when card c was made: the surfaces and the cards
\* made before it.
SurfacesBefore(c) ==
    scene.occluders \cup
    UNION {{CardVertices(b)[i] : i \in DOMAIN CardVertices(b)} : b \in {x \in Cards : x < c}}

\* The ray cast for stroke vertex v when card c was made hit something: a
\* surface point lies on the ray from v towards the sun, EPSILON or more away.
Occluded(c, v) ==
    \E p \in SurfacesBefore(c) :
        \E t \in EPSILON..Max({EPSILON} \cup {Abs(p[a] - v[a]) : a \in 1..3}) :
            p = VAdd(v, VScale(TowardsSun, t))

Unblocked(c) == {j \in DOMAIN StrokeVertices : ~Occluded(c, StrokeVertices[j])}

\* C7: for a sun, the card holds exactly one vertex v + direction * offset
\* for each stroke vertex v that is not occluded towards the sun (a ray from
\* v + direction * EPSILON hits nothing), in the strokes' order, and none for
\* an occluded one.
C7_SunCardVisibleOnly ==
    (result = "CARD_ADDED" /\ TheLight.data.type = "SUN") =>
        \A c \in Cards :
            /\ Len(CardVertices(c)) = Cardinality(Unblocked(c))
            /\ \A j \in Unblocked(c) :
                  CardVertices(c)[Cardinality({u \in Unblocked(c) : u <= j})]
                     = VAdd(StrokeVertices[j], VScale(TowardsSun, props.offset))

\* C7's case: a card made for a sun from two stroke vertices, one of them
\* on a surface point and not occluded towards the sun, the other occluded.
C7_Witness ==
    /\ result = "CARD_ADDED"
    /\ TheLight.data.type = "SUN"
    /\ props.offset > 0
    /\ Len(StrokeVertices) = 2
    /\ \E c \in Cards :
          /\ SurfacesBefore(c) = scene.occluders
          /\ Len(CardVertices(c)) = 1
          /\ \E j \in Unblocked(c) : StrokeVertices[j] \in scene.occluders

(***************************************************************************)
(* LP_OT_ConvexShadow.execute                                              *)
(***************************************************************************)
\* for light_obj in light_objs: self.add_card_for_lamp(context, light_obj, vertices)
\* The first call that raises ends the loop.
RECURSIVE AddCards(_, _, _, _)
AddCards(s, self, objs, vertices) ==
    IF objs = <<>> THEN [scene |-> s, raised |-> FALSE]
    ELSE LET r == AddCardForLamp(s, self, Head(objs), vertices)
         IN  IF r.raised THEN r ELSE AddCards(r.scene, self, Tail(objs), vertices)

\* obj.select_set(True)
SelectSet(s, obj) ==
    IF \E i \in DOMAIN s.selected_objects : s.selected_objects[i] = obj
    THEN s
    ELSE [s EXCEPT !.selected_objects = Append(@, obj)]

\* for obj in light_objs: obj.select_set(True)
RECURSIVE SelectAll(_, _)
SelectAll(s, objs) ==
    IF objs = <<>> THEN s ELSE SelectAll(SelectSet(s, Head(objs)), Tail(objs))

\* Faulty variant: the card's mesh and object are created before the strokes are
\* read, as the light-tube operator does.
ExecuteCardFirst(s, self, input) ==
    LET objs == GetSelectedLights(s)
    IN  IF input.raises
        THEN [scene |-> NewCard(s), light_objs |-> objs, result |-> "CANCELLED",
              reports |-> << <<"ERROR", input.message>> >>]
        ELSE LET done == AddCards(s, self, objs, Flatten(input.strokes))
             IN  IF done.raised \/ objs = <<>>
                 THEN [scene |-> done.scene, light_objs |-> objs, result |-> "RAISED",
                       reports |-> <<>>]
                 ELSE [scene |-> [SelectAll(done.scene, objs)
                                    EXCEPT !.active_object = objs[Len(objs)]],
                       light_objs |-> objs, result |-> "FINISHED", reports |-> <<>>]

\* Faulty variant: the lights are not selected again after the cards are made.
ExecuteNoReselect(s, self, input) ==
    LET objs == GetSelectedLights(s)
    IN  IF input.raises
        THEN [scene |-> s, light_objs |-> objs, result |-> "CANCELLED",
              reports |-> << <<"ERROR", input.message>> >>]
        ELSE LET done == AddCards(s, self, objs, Flatten(input.strokes))
             IN  IF done.raised \/ objs = <<>>
                 THEN [scene |-> done.scene, light_objs |-> objs, result |-> "RAISED",
                       reports |-> <<>>]
                 ELSE [scene |-> [done.scene EXCEPT !.active_object = objs[Len(objs)]],
                       light_objs |-> objs, result |-> "FINISHED", reports |-> <<>>]

\* execute(self, context): the scene afterwards, the tuple of lights it
\* worked on, what it returned ("RAISED": an exception left it: the
\* AttributeError of add_card_for_lamp, or the IndexError of light_objs[-1]
\* on an empty tuple), and what it reported.
Execute(s, self, input) ==
    LET objs == GetSelectedLights(s)
    IN  IF input.raises
        THEN [scene |-> s, light_objs |-> objs, result |-> "CANCELLED",
              reports |-> << <<"ERROR", input.message>> >>]
        ELSE LET done == AddCards(s, self, objs, Flatten(input.strokes))
             IN  IF done.raised \/ objs = <<>>
                 THEN [scene |-> done.scene, light_objs |-> objs, result |-> "RAISED",
                       reports |-> <<>>]
                 ELSE [scene |-> [SelectAll(done.scene, objs)
                                    EXCEPT !.active_object = objs[Len(objs)]],
                       light_objs |-> objs, result |-> "FINISHED", reports |-> <<>>]

\* Strokes for which get_strokes raises ValueError.
RaisingStrokes == [has_strokes |-> TRUE, raises |-> TRUE,
                   message |-> "ValueError of get_strokes", strokes |-> <<>>]

MaxReports == 2

Init ==
    /\ scene \in Scenes
    /\ props = DefaultProps
    /\ stroke_input \in {NoStrokes, SomeStrokes, RaisingStrokes}
    /\ light_objs = <<>>
    /\ result = "NONE"
    /\ report = <<>>
    /\ layout = <<>>
    /\ normals = <<>> /\ avg_normal = Idle /\ box_in = Idle /\ box_out = Idle

\* The user runs the operator; the host runs execute when poll allows it.
CallExecute ==
    /\ Poll(scene)
    /\ scene.meshes < MaxCards
    /\ Len(report) < MaxReports
    /\ LET out == Execute(scene, props, stroke_input)
       IN  /\ scene' = out.scene
           /\ light_objs' = out.light_objs
           /\ result' = out.result
           /\ report' = report \o out.reports
    /\ UNCHANGED <<props, stroke_input, layout, normalVars, boxVars>>

Next == CallExecute

Spec == Init /\ [][Next]_vars

\* C5: when get_strokes raises ValueError, execute reports the message at
\* level ERROR, returns {'CANCELLED'} and leaves the scene as it was: no mesh,
\* object or material is created, the selection and the active object stay.
C5_CancelledLeavesScene ==
    [][stroke_input.raises =>
          /\ result' = "CANCELLED"
          /\ report' = Append(report, <<"ERROR", stroke_input.message>>)
          /\ scene' = scene]_vars

\* C5's case: an execute was cancelled with lights selected.
C5_Witness ==
    /\ result = "CANCELLED"
    /\ stroke_input.raises
    /\ Len(report) = 1
    /\ Len(scene.selected_objects) >= 2
    /\ Len(light_objs) >= 2

Range(q) == {q[i] : i \in DOMAIN q}

\* C8: an execute that returns {'FINISHED'} has created as many objects as
\* get_selected_lights returned elements, each a hulled mesh with exactly one
\* material, created by this execute and shared with no other card; and it
\* ends with every one of those elements selected, no created card selected
\* and the tuple's last element active.
C8_FinishedOneCardPerLight ==
    [][result' = "FINISHED" =>
          LET created == (DOMAIN scene'.objects) \ (DOMAIN scene.objects)
              material(c) == scene'.objects[c].data.materials
          IN  /\ light_objs' = GetSelectedLights(scene)
              /\ Cardinality(created) = Len(light_objs')
              /\ Cardinality(Range(light_objs')) = Len(light_objs')
              /\ Len(scene'.materials) = Len(scene.materials) + Len(light_objs')
              /\ \A c \in created :
                    /\ scene'.objects[c].type = "MESH"
                    /\ scene'.objects[c].data.hull
                    /\ Len(material(c)) = 1
                    /\ material(c)[1] > Len(scene.materials)
                    /\ material(c)[1] <= Len(scene'.materials)
                    /\ \A b \in created : b # c => material(b) # material(c)
                    /\ c \notin Range(scene'.selected_objects)
              /\ \A o \in DOMAIN scene.objects : scene'.objects[o] = scene.objects[o]
              /\ Range(light_objs') \subseteq Range(scene'.selected_objects)
              /\ scene'.active_object = light_objs'[Len(light_objs')]]_vars

\* C8's case: an execute finished for three lights, of which the active one
\* was selected too and not the last of the tuple.
C8_Witness ==
    /\ result = "FINISHED"
    /\ Len(light_objs) = 3
    /\ scene.meshes = 3
    /\ Len(scene.materials) = 3
    /\ scene.active_object = light_objs[3]

====
